---- MODULE Spec2Model ----
(***************************************************************************)
(* json_dedupe.py: normalize_value (the canonical form of a JSON value),   *)
(* the json.dumps key built from it, and the loop of solve that keeps the  *)
(* first record of every key.                                              *)
(*                                                                         *)
(* A Python value is a record [t, n, s, keys, kids]:                       *)
(*   t     the Python type name ("NoneType", "bool", "int", "float",       *)
(*         "str", "dict", "list", "tuple", or "TypeError" for a raised     *)
(*         exception travelling up the call stack),                        *)
(*   n     the numeric value of a bool/int/float (True is 1),              *)
(*   s     the text of a str,                                              *)
(*   keys  the keys of a dict in insertion order,                          *)
(*   kids  the values of a dict (kids[i] belongs to keys[i]) or the        *)
(*         elements of a list/tuple.                                       *)
(***************************************************************************)
EXTENDS Integers, Sequences, FiniteSets, TLC

VARIABLES input, idx, seen, output, pc, args

vars == <<input, idx, seen, output, pc, args>>

\* ------------------------------------------------------------ bounds
\* longest list literal inside a record
MaxArrayLen == 3
\* longest input_dicts of the loop specifications
MaxInput == 3

\* ------------------------------------------------------------ values
PyNone == [t |-> "NoneType", n |-> 0, s |-> "", keys |-> <<>>, kids |-> <<>>]

PyBool(b) == [t |-> "bool", n |-> IF b THEN 1 ELSE 0, s |-> "", keys |-> <<>>, kids |-> <<>>]

PyInt(i) == [t |-> "int", n |-> i, s |-> "", keys |-> <<>>, kids |-> <<>>]

\* float(i): the floats of the model are whole numbers
PyFloat(i) == [t |-> "float", n |-> i, s |-> "", keys |-> <<>>, kids |-> <<>>]

PyStr(x) == [t |-> "str", n |-> 0, s |-> x, keys |-> <<>>, kids |-> <<>>]

PyDict(ks, vs) == [t |-> "dict", n |-> 0, s |-> "", keys |-> ks, kids |-> vs]

PyList(xs) == [t |-> "list", n |-> 0, s |-> "", keys |-> <<>>, kids |-> xs]

PyTuple(xs) == [t |-> "tuple", n |-> 0, s |-> "", keys |-> <<>>, kids |-> xs]

\* the exception raised by '<' between unorderable operands
TypeError == [t |-> "TypeError", n |-> 0, s |-> "", keys |-> <<>>, kids |-> <<>>]

\* PRIMITIVE_TYPES = (int, float, str, bool): NoneType is not among them
PRIMITIVE_TYPES == {"int", "float", "str", "bool"}

\* isinstance(x, PRIMITIVE_TYPES)
IsPrimitiveInstance(x) == x.t \in PRIMITIVE_TYPES

\* ------------------------------------------------ Python comparisons
IsNumber(x) == x.t \in {"bool", "int", "float"}

\* ord() of the one-character strings of the model
Ord(c) == CASE c = "a" -> 97 [] c = "b" -> 98 [] OTHER -> 0

\* str.__lt__ on the one-character strings of the model
StrLt(x, y) == Ord(x) < Ord(y)

RECURSIVE PyEq(_, _)
\* a == b: never raises; numbers compare by value across bool/int/float
PyEq(a, b) ==
  IF IsNumber(a) /\ IsNumber(b) THEN a.n = b.n
  ELSE IF a.t = "str" /\ b.t = "str" THEN a.s = b.s
  ELSE IF a.t = "NoneType" /\ b.t = "NoneType" THEN TRUE
  ELSE IF a.t = "tuple" /\ b.t = "tuple"
    THEN /\ Len(a.kids) = Len(b.kids)
         /\ \A i \in 1..Len(a.kids) : PyEq(a.kids[i], b.kids[i])
  ELSE FALSE

Min(i, j) == IF i < j THEN i ELSE j

RECURSIVE PyLt(_, _)
\* a < b: "True", "False" or "TypeError" (the operands are unorderable)
PyLt(a, b) ==
  IF IsNumber(a) /\ IsNumber(b) THEN (IF a.n < b.n THEN "True" ELSE "False")
  ELSE IF a.t = "str" /\ b.t = "str" THEN (IF StrLt(a.s, b.s) THEN "True" ELSE "False")
  ELSE IF a.t = "tuple" /\ b.t = "tuple"
    THEN LET m == Min(Len(a.kids), Len(b.kids))
             diff == {i \in 1..m : ~PyEq(a.kids[i], b.kids[i])}
         IN IF diff = {}
              THEN (IF Len(a.kids) < Len(b.kids) THEN "True" ELSE "False")
              ELSE LET i == CHOOSE j \in diff : \A k \in diff : j <= k
                   IN PyLt(a.kids[i], b.kids[i])
  ELSE "TypeError"

\* ------------------------------------------------------ sorted(...)
\* CPython's list.sort on fewer than 64 elements: count_run finds the
\* longest run at the front (reversed when strictly descending), then
\* binarysort inserts the remaining elements one by one.  Every '<' that
\* raises ends the sort with that exception.

Reverse(xs) == [i \in 1..Len(xs) |-> xs[Len(xs) + 1 - i]]

RECURSIVE RunEnd(_, _, _)
\* count_run's loop from element i on: the length of the run, or -1 when a
\* comparison raised
RunEnd(xs, i, descending) ==
  IF i > Len(xs) THEN Len(xs)
  ELSE LET c == PyLt(xs[i], xs[i - 1])
       IN IF c = "TypeError" THEN -1
          ELSE IF (c = "True") = descending THEN RunEnd(xs, i + 1, descending)
          ELSE i - 1

RECURSIVE BinarySearch(_, _, _, _)
\* binarysort's do-while over [l, r): the slot of pivot in the sorted ys,
\* or 0 when a comparison raised
BinarySearch(ys, pivot, l, r) ==
  LET p == l + ((r - l) \div 2)
      c == PyLt(pivot, ys[p])
  IN IF c = "TypeError" THEN 0
     ELSE LET l2 == IF c = "True" THEN l ELSE p + 1
              r2 == IF c = "True" THEN p ELSE r
          IN IF l2 < r2 THEN BinarySearch(ys, pivot, l2, r2) ELSE l2

RECURSIVE BinarySort(_, _)
\* binarysort: ys is sorted, rest is inserted element by element
BinarySort(ys, rest) ==
  IF rest = <<>> THEN PyList(ys)
  ELSE LET pivot == Head(rest)
           l == BinarySearch(ys, pivot, 1, Len(ys) + 1)
       IN IF l = 0 THEN TypeError
          ELSE BinarySort(SubSeq(ys, 1, l - 1) \o <<pivot>> \o SubSeq(ys, l, Len(ys)),
                          Tail(rest))

\* sorted(xs): a new list, or the TypeError of an unorderable pair
sorted(xs) ==
  IF Len(xs) < 2 THEN PyList(xs)
  ELSE LET c == PyLt(xs[2], xs[1])
       IN IF c = "TypeError" THEN TypeError
          ELSE LET descending == (c = "True")
                   n == RunEnd(xs, 3, descending)
               IN IF n = -1 THEN TypeError
                  ELSE LET run == SubSeq(xs, 1, n)
                       IN BinarySort(IF descending THEN Reverse(run) ELSE run,
                                     SubSeq(xs, n + 1, Len(xs)))

\* ------------------------------------------------- normalize_value
RECURSIVE normalize_value(_)
\* the canonical form of value, or TypeError when a sorted() inside raised
normalize_value(value) ==
  IF value.t = "dict"
    THEN LET nv == [i \in 1..Len(value.kids) |-> normalize_value(value.kids[i])]
         IN IF \E i \in 1..Len(nv) : nv[i] = TypeError THEN TypeError
            ELSE LET items == [i \in 1..Len(nv) |->
                                 PyTuple(<<PyStr(value.keys[i]), nv[i]>>)]
                     srt == sorted(items)
                 IN IF srt = TypeError THEN TypeError ELSE PyTuple(srt.kids)
  ELSE IF value.t = "list"
    THEN IF \A i \in 1..Len(value.kids) : IsPrimitiveInstance(value.kids[i])
           THEN PyTuple(value.kids)
           ELSE LET nv == [i \in 1..Len(value.kids) |-> normalize_value(value.kids[i])]
                IN IF \E i \in 1..Len(nv) : nv[i] = TypeError THEN TypeError
                   ELSE LET srt == sorted(nv)
                        IN IF srt = TypeError THEN TypeError ELSE PyTuple(srt.kids)
  ELSE value

\* ------------------------------------------------------ json.dumps
RECURSIVE dumps(_)
RECURSIVE JoinDumps(_)
\* ", ".join of the encoded elements
JoinDumps(xs) ==
  IF xs = <<>> THEN ""
  ELSE IF Len(xs) = 1 THEN dumps(xs[1])
  ELSE dumps(xs[1]) \o ", " \o JoinDumps(Tail(xs))

\* json.dumps(v, sort_keys=True) of a normalized value: tuples and lists
\* both encode as JSON arrays; a normalized value holds no dict, so
\* sort_keys has nothing to act on
dumps(v) ==
  CASE v.t = "NoneType" -> "null"
    [] v.t = "bool" -> (IF v.n = 1 THEN "true" ELSE "false")
    [] v.t = "int" -> ToString(v.n)
    [] v.t = "float" -> ToString(v.n) \o ".0"
    [] v.t = "str" -> "\"" \o v.s \o "\""
    [] v.t \in {"tuple", "list"} -> "[" \o JoinDumps(v.kids) \o "]"

\* ------------------------------------------------------ input values
RECURSIVE SeqsUpTo(_, _)
\* the sequences over S of length at most n
SeqsUpTo(S, n) ==
  IF n = 0 THEN {<<>>}
  ELSE LET shorter == SeqsUpTo(S, n - 1)
       IN shorter \cup {Append(xs, x) : xs \in {ys \in shorter : Len(ys) = n - 1}, x \in S}

\* {k: v}
Dict1(k, v) == PyDict(<<k>>, <<v>>)

\* the scalars a record may hold at its top level
Prims == {PyNone, PyBool(TRUE), PyInt(1), PyFloat(1), PyStr("a")}

\* the dicts a record may hold, directly or inside a list
InnerDicts == {PyDict(<<>>, <<>>), Dict1("a", PyInt(1)), Dict1("a", PyBool(TRUE))}

\* the elements of the lists of a record
Elems == {PyNone, PyInt(1), PyStr("a")} \cup InnerDicts
           \cup {PyList(<<PyStr("a"), PyInt(1)>>)}

Arrays == {PyList(xs) : xs \in SeqsUpTo(Elems, MaxArrayLen)}

Values == Prims \cup InnerDicts \cup Arrays

\* the records of the pair specification: one value under "a", or two
\* scalars under "a" and "b" in either insertion order
Records ==
  {Dict1("a", v) : v \in Values}
    \cup {PyDict(<<"a", "b">>, <<p, q>>) : p, q \in {PyInt(1), PyBool(TRUE)}}
    \cup {PyDict(<<"b", "a">>, <<q, p>>) : p, q \in {PyInt(1), PyBool(TRUE)}}

\* the records of the loop specification: duplicates by key order and by
\* list order, ordered scalar lists, {} against [], a list that cannot be
\* sorted
LoopRecords ==
  { PyDict(<<"a", "b">>, <<PyInt(1), PyBool(TRUE)>>),
    PyDict(<<"b", "a">>, <<PyBool(TRUE), PyInt(1)>>),
    Dict1("a", PyList(<<Dict1("a", PyInt(1)), PyDict(<<>>, <<>>)>>)),
    Dict1("a", PyList(<<PyDict(<<>>, <<>>), Dict1("a", PyInt(1))>>)),
    Dict1("a", PyList(<<PyInt(1), PyBool(TRUE)>>)),
    Dict1("a", PyList(<<PyBool(TRUE), PyInt(1)>>)),
    Dict1("a", PyDict(<<>>, <<>>)),
    Dict1("a", PyList(<<>>)),
    Dict1("a", PyList(<<PyNone, PyInt(1)>>)),
    Dict1("a", PyInt(1)) }

\* the records of the two-call specification
ConcRecords ==
  { PyDict(<<"a", "b">>, <<PyInt(1), PyBool(TRUE)>>),
    PyDict(<<"b", "a">>, <<PyBool(TRUE), PyInt(1)>>),
    Dict1("a", PyList(<<PyNone, PyInt(1)>>)) }

\* --------------------------------------------------------- solve
\* the invocations of solve the model follows
Calls == {1, 2}

\* for d in input_dicts: is there a record at position i
HasNextOffByOne(i, xs) == i < Len(xs)

HasNext(i, xs) == i <= Len(xs)

\* seen.add(normalized)
SeenAddForgets(s, normalized) == s

SeenAdd(s, normalized) == s \cup {normalized}

\* a record with its keys put in sorted order
SortedCopy(d) ==
  IF d.t = "dict" /\ Len(d.keys) = 2 /\ StrLt(d.keys[2], d.keys[1])
    THEN PyDict(<<d.keys[2], d.keys[1]>>, <<d.kids[2], d.kids[1]>>)
    ELSE d

AppendRecordInFront(out, d) == <<d>> \o out

\* output.append(d)
AppendRecord(out, d) == Append(out, d)

\* what normalize_value(value) leaves in its argument: it builds new
\* tuples and never assigns into value
ArgAfterNormalizeInPlace(value) == SortedCopy(value)

ArgAfterNormalize(value) == value

\* the seen set invocation c works on: its own local
SeenSlotShared(c) == 1

SeenSlot(c) == c

\* solve(xs) is entered: seen = set(), output = []
Enter(c, xs) ==
  /\ input' = [input EXCEPT ![c] = xs]
  /\ idx' = [idx EXCEPT ![c] = 1]
  /\ seen' = [seen EXCEPT ![SeenSlot(c)] = {}]
  /\ output' = [output EXCEPT ![c] = <<>>]
  /\ pc' = [pc EXCEPT ![c] = "loop"]
  /\ args' = [args EXCEPT ![c] = Append(@, xs)]

\* the state of the invocations after call 1 is entered with xs1 and, when
\* started, call 2 with xs2
Entered(xs1, started2, xs2) ==
  /\ input = (1 :> xs1 @@ 2 :> xs2)
  /\ idx = (1 :> 1 @@ 2 :> 1)
  /\ seen = (1 :> {} @@ 2 :> {})
  /\ output = (1 :> <<>> @@ 2 :> <<>>)
  /\ pc = (1 :> "loop" @@ 2 :> IF started2 THEN "loop" ELSE "idle")
  /\ args = (1 :> <<xs1>> @@ 2 :> IF started2 THEN <<xs2>> ELSE <<>>)

\* solve(xs) with xs of up to MaxInput loop records
Init == \E xs \in SeqsUpTo(LoopRecords, MaxInput) : Entered(xs, FALSE, <<>>)

\* solve([a, b]) for every two records
InitPair == \E a, b \in Records : Entered(<<a, b>>, FALSE, <<>>)

\* two invocations on inputs of their own
InitConc == \E xs1, xs2 \in SeqsUpTo(ConcRecords, MaxInput) : Entered(xs1, TRUE, xs2)

\* one pass of the for loop body, from normalize_value(d) to output.append(d);
\* a TypeError out of normalize_value leaves solve
Iterate(c) ==
  /\ pc[c] = "loop"
  /\ HasNext(idx[c], input[c])
  /\ LET d == input[c][idx[c]]
         normalized_value == normalize_value(d)
     IN IF normalized_value = TypeError
          THEN /\ pc' = [pc EXCEPT ![c] = "raised"]
               /\ UNCHANGED <<input, idx, seen, output, args>>
          ELSE LET normalized == dumps(normalized_value)
               IN /\ IF normalized \notin seen[SeenSlot(c)]
                       THEN /\ seen' = [seen EXCEPT ![SeenSlot(c)] = SeenAdd(@, normalized)]
                            /\ output' = [output EXCEPT ![c] =
                                            AppendRecord(@, ArgAfterNormalize(d))]
                       ELSE UNCHANGED <<seen, output>>
                  /\ input' = [input EXCEPT ![c][idx[c]] = ArgAfterNormalize(d)]
                  /\ idx' = [idx EXCEPT ![c] = @ + 1]
                  /\ UNCHANGED <<pc, args>>

\* the loop is exhausted: return output
Return(c) ==
  /\ pc[c] = "loop"
  /\ ~HasNext(idx[c], input[c])
  /\ pc' = [pc EXCEPT ![c] = "returned"]
  /\ UNCHANGED <<input, idx, seen, output, args>>

\* the caller passes what solve returned to solve again: solve(solve(xs))
Resubmit(c) ==
  /\ pc[c] = "returned"
  /\ Len(args[c]) = 1
  /\ Enter(c, output[c])

Next == \E c \in Calls : Iterate(c) \/ Return(c) \/ Resubmit(c)

Spec == Init /\ [][Next]_vars

SpecPair == InitPair /\ [][Next]_vars

SpecConc == InitConc /\ [][Next]_vars

\* the result of solve(xs) run on its own, as a function of xs
RECURSIVE SolveFrom(_, _, _, _)
SolveFrom(xs, i, seenSoFar, out) ==
  IF ~HasNext(i, xs) THEN [pc |-> "returned", output |-> out]
  ELSE LET normalized_value == normalize_value(xs[i])
       IN IF normalized_value = TypeError THEN [pc |-> "raised", output |-> out]
          ELSE LET normalized == dumps(normalized_value)
               IN IF normalized \notin seenSoFar
                    THEN SolveFrom(xs, i + 1, SeenAdd(seenSoFar, normalized),
                                   AppendRecord(out, xs[i]))
                    ELSE SolveFrom(xs, i + 1, seenSoFar, out)

solve(xs) == SolveFrom(xs, 1, {}, <<>>)

\* ------------------------------------------------------------ claims
\* the canonical key of a record whose normalization does not raise
CanonicalKey(d) == dumps(normalize_value(d))

\* the variants the specification calls primitive: null is one of them
IsJsonPrimitive(v) == v.t \in {"NoneType", "bool", "int", "float", "str"}

\* an array whose direct elements are all primitives
PurePrimitive(v) == v.t = "list" /\ \A i \in 1..Len(v.kids) : IsJsonPrimitive(v.kids[i])

Perms(n) == {p \in [1..n -> 1..n] : \A i, j \in 1..n : p[i] = p[j] => i = j}

\* ys holds the elements of xs in some order
IsPermutation(xs, ys) ==
  /\ Len(xs) = Len(ys)
  /\ \E p \in Perms(Len(xs)) : \A i \in 1..Len(xs) : xs[i] = ys[p[i]]

\* the value stored under key k of dict d
ValueAt(d, k) == d.kids[CHOOSE i \in 1..Len(d.keys) : d.keys[i] = k]

RECURSIVE Equiv(_, _)
\* the order rule: objects and arrays with a non-primitive element are
\* unordered, pure-primitive arrays are ordered, primitives are equal when
\* type and value are
Equiv(a, b) ==
  IF IsJsonPrimitive(a) \/ IsJsonPrimitive(b) THEN a = b
  ELSE IF a.t = "dict" /\ b.t = "dict"
    THEN /\ {a.keys[i] : i \in 1..Len(a.keys)} = {b.keys[i] : i \in 1..Len(b.keys)}
         /\ \A i \in 1..Len(a.keys) : Equiv(a.kids[i], ValueAt(b, a.keys[i]))
  ELSE IF a.t = "list" /\ b.t = "list"
    THEN IF PurePrimitive(a) \/ PurePrimitive(b) THEN a = b
         ELSE /\ Len(a.kids) = Len(b.kids)
              /\ \E p \in Perms(Len(a.kids)) :
                   \A i \in 1..Len(a.kids) : Equiv(a.kids[i], b.kids[p[i]])
  ELSE FALSE

\* a and b are the two places where the records differ: two pure-primitive
\* arrays holding the same elements in different orders ("permuted"), or {}
\* and [] ("empty")
LeafDiff(a, b, kind) ==
  IF kind = "permuted"
    THEN PurePrimitive(a) /\ PurePrimitive(b) /\ a # b /\ IsPermutation(a.kids, b.kids)
    ELSE {a, b} = {PyDict(<<>>, <<>>), PyList(<<>>)}

RECURSIVE DiffersOnlyAt(_, _, _)
\* a and b are the same value but for one place, where LeafDiff holds
DiffersOnlyAt(a, b, kind) ==
  \/ LeafDiff(a, b, kind)
  \/ /\ a.t = b.t
     /\ a.t \in {"dict", "list"}
     /\ a.keys = b.keys
     /\ Len(a.kids) = Len(b.kids)
     /\ \E i \in 1..Len(a.kids) :
          /\ DiffersOnlyAt(a.kids[i], b.kids[i], kind)
          /\ \A j \in 1..Len(a.kids) : j # i => a.kids[j] = b.kids[j]

\* invocation c is the first call, on two records, and is over
PairDone(c) ==
  /\ pc[c] \in {"returned", "raised"}
  /\ Len(args[c]) = 1
  /\ Len(input[c]) = 2

\* C1: when b is a with the entries of objects and the elements of arrays
\* that hold a non-primitive reordered, solve([a, b]) returns exactly [a]
\* (stated of the calls that return; C5 is about the ones that do not)
C1_OrderInsensitive ==
  \A c \in Calls :
    (PairDone(c) /\ pc[c] = "returned" /\ Equiv(input[c][1], input[c][2]))
      => output[c] = <<input[c][1]>>

\* C2: two records that differ only in one pure-primitive array (numbers,
\* strings, booleans or null) holding the same elements in another order
\* are both kept by solve
C2_PrimitiveArrayOrderMatters ==
  \A c \in Calls :
    (PairDone(c) /\ DiffersOnlyAt(input[c][1], input[c][2], "permuted"))
      => (pc[c] = "returned" /\ output[c] = input[c])

\* C3: two records that differ only in one having {} where the other has []
\* are never duplicates: solve returns both
\* (stated of the calls that return)
C3_EmptyObjectVsEmptyArray ==
  \A c \in Calls :
    (PairDone(c) /\ pc[c] = "returned"
       /\ DiffersOnlyAt(input[c][1], input[c][2], "empty"))
      => output[c] = input[c]

\* C4: two records that are not equivalent under the order rule have
\* different canonical keys: solve([a, b]) returns both
\* (stated of the calls that return)
C4_NoFalseMerge ==
  \A c \in Calls :
    (PairDone(c) /\ pc[c] = "returned" /\ ~Equiv(input[c][1], input[c][2]))
      => output[c] = input[c]

\* C5: solve never raises on records built from null, booleans, numbers,
\* strings, objects and arrays
C5_Total == \A c \in Calls : pc[c] # "raised"

\* the indices among the first n of xs that are the first of their key
FirstOccurrences(xs, n) ==
  {i \in 1..n : \A j \in 1..(i - 1) : CanonicalKey(xs[j]) # CanonicalKey(xs[i])}

RECURSIVE Pick(_, _, _)
\* the elements of xs at the indices in S that are >= i, in index order
Pick(xs, S, i) ==
  IF i > Len(xs) THEN <<>>
  ELSE (IF i \in S THEN <<xs[i]>> ELSE <<>>) \o Pick(xs, S, i + 1)

\* C6: at every point of the loop, and so at return, output is the
\* subsequence of the records processed so far that holds, in input order,
\* exactly the record of smallest index of every canonical key
C6_OrderPreservation ==
  \A c \in Calls :
    output[c] = Pick(input[c], FirstOccurrences(input[c], idx[c] - 1), 1)

\* a returned call on three records whose third, another record with the
\* key of the first, was dropped
C6_Witness ==
  \E c \in Calls :
    /\ pc[c] = "returned"
    /\ Len(input[c]) = 3
    /\ output[c] = <<input[c][1], input[c][2]>>
    /\ input[c][3] # input[c][1]
    /\ CanonicalKey(input[c][3]) = CanonicalKey(input[c][1])

\* C7: solve(solve(xs)) = solve(xs): the second call returns its input
C7_Idempotence ==
  \A c \in Calls :
    (pc[c] = "returned" /\ Len(args[c]) = 2) => output[c] = args[c][2]

\* the second call has returned, and the first had dropped a record and
\* kept at least two
C7_Witness ==
  \E c \in Calls :
    /\ pc[c] = "returned"
    /\ Len(args[c]) = 2
    /\ Len(args[c][2]) < Len(args[c][1])
    /\ Len(output[c]) >= 2

\* C8: the input sequence is what the caller passed, record for record, and
\* every output record is one of the input records as it was passed, key
\* order and list orders included
C8_OriginalRecords ==
  \A c \in Calls :
    pc[c] # "idle" =>
      /\ input[c] = args[c][Len(args[c])]
      /\ \A j \in 1..Len(output[c]) :
           \E i \in 1..Len(input[c]) : output[c][j] = args[c][Len(args[c])][i]

\* a returned call whose output holds a record with its keys out of order
C8_Witness ==
  \E c \in Calls :
    /\ pc[c] = "returned"
    /\ \E j \in 1..Len(output[c]) : SortedCopy(output[c][j]) # output[c][j]

\* C9: under every interleaving of the two calls, and for a call made after
\* another, a call ends the way it ends when run alone and returns what it
\* returns alone
C9_CallIndependence ==
  \A c \in Calls :
    pc[c] \in {"returned", "raised"} =>
      /\ solve(input[c]).pc = pc[c]
      /\ pc[c] = "returned" => output[c] = solve(input[c]).output

\* both first calls have returned records, and they saw a key in common
C9_Witness ==
  /\ \A c \in Calls : pc[c] = "returned" /\ Len(args[c]) = 1 /\ output[c] # <<>>
  /\ seen[1] \cap seen[2] # {}

\* C10: seen is the set of keys of the records in output, these keys are
\* pairwise distinct, the key of every record processed so far is in seen,
\* and at return every input record has a record of its key in output
C10_LoopInvariant ==
  \A c \in Calls :
    /\ seen[c] = {CanonicalKey(output[c][j]) : j \in 1..Len(output[c])}
    /\ \A j, k \in 1..Len(output[c]) :
         CanonicalKey(output[c][j]) = CanonicalKey(output[c][k]) => j = k
    /\ \A i \in 1..(idx[c] - 1) : CanonicalKey(input[c][i]) \in seen[c]
    /\ pc[c] = "returned" =>
         \A i \in 1..Len(input[c]) :
           \E j \in 1..Len(output[c]) :
             CanonicalKey(output[c][j]) = CanonicalKey(input[c][i])

\* in the middle of the loop, after a duplicate was skipped
C10_Witness ==
  \E c \in Calls :
    /\ pc[c] = "loop"
    /\ idx[c] <= Len(input[c])
    /\ output[c] # <<>>
    /\ Len(output[c]) < idx[c] - 1

====
